---- MODULE Spec2Model ----
(***************************************************************************)
(* Model of sistema-figuras.js: validation, the 2D figures, the 3D solids  *)
(* and their adapter, the similarity strategies, the factory, the          *)
(* collection and the demonstration script.                                *)
(*                                                                         *)
(* JavaScript numbers are modelled in fixed point: the integer v stands    *)
(* for v / Scale, and every arithmetic operation rounds its result to the  *)
(* nearest representable value, as IEEE-754 arithmetic does at a finer     *)
(* grain.  NaN is a number of its own that every operation propagates.     *)
(***************************************************************************)
EXTENDS Integers, Sequences, FiniteSets, TLC

\* ------------------------------------------------------------------------
\* Bounds of the model
\* ------------------------------------------------------------------------
Raiz == 10                      \* resolution: Scale = Raiz^3 units per 1.0
MaxId == 2                      \* distinct outcomes of Math.random()
MaxFiguras == 3                 \* length of the collection
MaxSalida == 8                  \* lines written while exploring the collection

Scale == Raiz * Raiz * Raiz
Ids == 1..MaxId

\* ------------------------------------------------------------------------
\* JavaScript values
\* ------------------------------------------------------------------------
Num(v) == [tipo |-> "number", nan |-> FALSE, v |-> v]
NaN == [tipo |-> "number", nan |-> TRUE, v |-> 0]
Indefinido == [tipo |-> "undefined", nan |-> FALSE, v |-> 0]
Cadena(k) == [tipo |-> "string", nan |-> FALSE, v |-> k]

Redondear(n, d) == (n + (d \div 2)) \div d

Lit(n) == Num(n * Scale)                         \* the literal n
Frac(n, d) == Num(Redondear(n * Scale, d))       \* the literal n/d, to the nearest

typeof(x) == x.tipo

\* x <= 0 on numbers: every comparison with NaN is false
MenorIgualCero(x) == (~x.nan) /\ x.v <= 0

Mul(a, b) == IF a.nan \/ b.nan THEN NaN ELSE Num(Redondear(a.v * b.v, Scale))
Div(a, b) == IF a.nan \/ b.nan THEN NaN ELSE Num(Redondear(a.v * Scale, b.v))
Sum(a, b) == IF a.nan \/ b.nan THEN NaN ELSE Num(a.v + b.v)
Cuadrado(a) == Mul(a, a)                         \* a ** 2
Cubo3(a) == Mul(Mul(a, a), a)                    \* a ** 3

\* largest c in lo..hi with c^3 <= x (hi^3 must not overflow)
RECURSIVE RaizCubica(_, _, _)
RaizCubica(x, lo, hi) ==
  IF lo >= hi THEN lo
  ELSE LET m == (lo + hi + 1) \div 2
       IN IF m * m * m <= x THEN RaizCubica(x, m, hi) ELSE RaizCubica(x, lo, m - 1)

\* a ** (2/3): the cube root c of a in units of 1/Raiz^2, then c squared
Pot23(a) ==
  IF a.nan THEN NaN
  ELSE LET c == RaizCubica(a.v * Scale, 0, 1290)
       IN Num(Redondear(c * c, Raiz))

\* Math.PI, Math.tan(Math.PI / 5), Math.sqrt(3)
PI == Frac(31416, 10000)
TanPI5 == Frac(72654, 100000)
Sqrt3 == Frac(17321, 10000)

\* Number.prototype.toFixed(2): hundredths, rounded; NaN prints as "NaN"
toFixed2(a) ==
  IF a.nan THEN [texto |-> "NaN", centesimas |-> 0]
  ELSE [texto |-> "decimal", centesimas |-> Redondear(a.v * 100, Scale)]

\* ------------------------------------------------------------------------
\* Outcome of a call: a returned value or a thrown error
\* ------------------------------------------------------------------------
Devuelve(x) == [lanza |-> FALSE, error |-> "", valor |-> x]
Lanza(e) == [lanza |-> TRUE, error |-> e, valor |-> Indefinido]

\* validarNumero(valor, nombre): TRUE when it returns, FALSE when it throws
validarNumero(valor) == ~(typeof(valor) # "number" \/ MenorIgualCero(valor))

\* ------------------------------------------------------------------------
\* Classes
\* ------------------------------------------------------------------------
Clases2D == {"Circulo", "Rectangulo", "Pentagono", "Hexagono"}
Clases3D == {"Cubo", "Esfera"}

\* constructors; id is the draw of Math.random() in FiguraGeometrica
Circulo(radio, id) ==
  IF ~validarNumero(radio) THEN Lanza("InvalidParameter")
  ELSE Devuelve([clase |-> "Circulo", nombre |-> "Círculo", id |-> Cadena(id),
                 radio |-> radio])

Rectangulo(ancho, alto, id) ==
  IF ~validarNumero(ancho) THEN Lanza("InvalidParameter")
  ELSE IF ~validarNumero(alto) THEN Lanza("InvalidParameter")
  ELSE Devuelve([clase |-> "Rectangulo", nombre |-> "Rectángulo", id |-> Cadena(id),
                 ancho |-> ancho, alto |-> alto])

Pentagono(lado, id) ==
  IF ~validarNumero(lado) THEN Lanza("InvalidParameter")
  ELSE Devuelve([clase |-> "Pentagono", nombre |-> "Pentágono", id |-> Cadena(id),
                 lado |-> lado])

Hexagono(lado, id) ==
  IF ~validarNumero(lado) THEN Lanza("InvalidParameter")
  ELSE Devuelve([clase |-> "Hexagono", nombre |-> "Hexágono", id |-> Cadena(id),
                 lado |-> lado])

Cubo(lado) ==
  IF ~validarNumero(lado) THEN Lanza("InvalidParameter")
  ELSE Devuelve([clase |-> "Cubo", nombre |-> "Cubo", lado |-> lado])

Esfera(radio) ==
  IF ~validarNumero(radio) THEN Lanza("InvalidParameter")
  ELSE Devuelve([clase |-> "Esfera", nombre |-> "Esfera", radio |-> radio])

\* new Figura3DAdapter(figura3D); the argument expression may have thrown
Figura3DAdapter(figura3D) ==
  IF figura3D.lanza THEN figura3D
  ELSE Devuelve([clase |-> "Figura3DAdapter", figura3D |-> figura3D.valor,
                 nombre |-> figura3D.valor.nombre])

\* ------------------------------------------------------------------------
\* Factory
\* ------------------------------------------------------------------------
TiposReconocidos == {"circulo", "rectangulo", "pentagono", "hexagono", "cubo", "esfera"}

\* parametros is a record of the four fields (Indefinido when absent), or
\* SinParametros when the caller passes no object at all
SinParametros == [objeto |-> FALSE, radio |-> Indefinido, ancho |-> Indefinido,
                  alto |-> Indefinido, lado |-> Indefinido]
Bolsa(radio, ancho, alto, lado) ==
  [objeto |-> TRUE, radio |-> radio, ancho |-> ancho, alto |-> alto, lado |-> lado]

\* mutant: no default case, an unknown tag is taken for a circle
crear_sinDefault(tipo, parametros, id) ==
  IF tipo \notin TiposReconocidos
  THEN IF ~parametros.objeto THEN Lanza("TypeError") ELSE Circulo(parametros.radio, id)
  ELSE IF ~parametros.objeto THEN Lanza("TypeError")
  ELSE CASE tipo = "circulo" -> Circulo(parametros.radio, id)
         [] tipo = "rectangulo" -> Rectangulo(parametros.ancho, parametros.alto, id)
         [] tipo = "pentagono" -> Pentagono(parametros.lado, id)
         [] tipo = "hexagono" -> Hexagono(parametros.lado, id)
         [] tipo = "cubo" -> Figura3DAdapter(Cubo(parametros.lado))
         [] tipo = "esfera" -> Figura3DAdapter(Esfera(parametros.radio))

crear(tipo, parametros, id) ==
  IF tipo \notin TiposReconocidos THEN Lanza("UnknownKind")
  ELSE IF ~parametros.objeto THEN Lanza("TypeError")
  ELSE CASE tipo = "circulo" -> Circulo(parametros.radio, id)
         [] tipo = "rectangulo" -> Rectangulo(parametros.ancho, parametros.alto, id)
         [] tipo = "pentagono" -> Pentagono(parametros.lado, id)
         [] tipo = "hexagono" -> Hexagono(parametros.lado, id)
         [] tipo = "cubo" -> Figura3DAdapter(Cubo(parametros.lado))
         [] tipo = "esfera" -> Figura3DAdapter(Esfera(parametros.radio))

\* ------------------------------------------------------------------------
\* Methods.  Metodos(f) is what the class of f (and its superclass) defines;
\* calling anything else on f is a TypeError, reading it gives undefined.
\* ------------------------------------------------------------------------
Metodos(f) ==
  CASE f.clase \in Clases2D ->
         {"calcularArea", "calcularPerimetro", "dibujarASCII", "describir", "id",
          "compararSimilitud"}
    [] f.clase = "Figura3DAdapter" ->
         {"calcularArea", "calcularPerimetro", "describir", "dibujarASCII"}
    [] f.clase \in Clases3D -> {"calcularVolumen", "dibujarASCII"}

calcularVolumen(s) ==
  CASE s.clase = "Cubo" -> Cubo3(s.lado)
    [] s.clase = "Esfera" -> Mul(Mul(Div(Lit(4), Lit(3)), PI), Cubo3(s.radio))

\* mutant: the hexagon's coefficient without its division by 2
calcularArea_sinMitad(f) ==
  CASE f.clase = "Circulo" -> Mul(PI, Cuadrado(f.radio))
    [] f.clase = "Rectangulo" -> Mul(f.ancho, f.alto)
    [] f.clase = "Pentagono" -> Div(Mul(Lit(5), Cuadrado(f.lado)), Mul(Lit(4), TanPI5))
    [] f.clase = "Hexagono" -> Mul(Mul(Lit(3), Sqrt3), Cuadrado(f.lado))
    [] f.clase = "Figura3DAdapter" -> Pot23(calcularVolumen(f.figura3D))

calcularArea(f) ==
  CASE f.clase = "Circulo" -> Mul(PI, Cuadrado(f.radio))
    [] f.clase = "Rectangulo" -> Mul(f.ancho, f.alto)
    [] f.clase = "Pentagono" -> Div(Mul(Lit(5), Cuadrado(f.lado)), Mul(Lit(4), TanPI5))
    [] f.clase = "Hexagono" -> Mul(Div(Mul(Lit(3), Sqrt3), Lit(2)), Cuadrado(f.lado))
    [] f.clase = "Figura3DAdapter" -> Pot23(calcularVolumen(f.figura3D))

calcularPerimetro(f) ==
  CASE f.clase = "Circulo" -> Mul(Mul(Lit(2), PI), f.radio)
    [] f.clase = "Rectangulo" -> Mul(Lit(2), Sum(f.ancho, f.alto))
    [] f.clase = "Pentagono" -> Mul(Lit(5), f.lado)
    [] f.clase = "Hexagono" -> Mul(Lit(6), f.lado)
    [] f.clase = "Figura3DAdapter" -> Lit(0)

ArteCirculo == <<"", "   ***   ", " *     * ", " *     * ", "   ***   ", "">>
ArteRectangulo == <<"", "+-----------+", "|           |", "|           |",
                    "+-----------+", "">>
ArtePentagono == <<"", "   /\\", "  /  \\", " /____\\", " \\    /", "  \\__/", "">>
ArteHexagono == <<"", "  ____  ", " /    \\ ", "/      \\", "\\      /", " \\____/", "">>
ArteCubo == <<"", "+------+", "|      |", "+------+", "|      |", "+------+", "">>
ArteEsfera == <<"", "   ***   ", " *     * ", " *     * ", "   ***   ", "">>

RECURSIVE dibujarASCII(_)
dibujarASCII(f) ==
  CASE f.clase = "Circulo" -> ArteCirculo
    [] f.clase = "Rectangulo" -> ArteRectangulo
    [] f.clase = "Pentagono" -> ArtePentagono
    [] f.clase = "Hexagono" -> ArteHexagono
    [] f.clase = "Cubo" -> ArteCubo
    [] f.clase = "Esfera" -> ArteEsfera
    [] f.clase = "Figura3DAdapter" -> dibujarASCII(f.figura3D)

\* the template strings of describir(), as the pieces they interpolate
describir(f) ==
  IF f.clase = "Figura3DAdapter"
  THEN [nombre |-> f.nombre, formato |-> "(3D) - Volumen",
        cifras |-> <<toFixed2(calcularVolumen(f.figura3D))>>]
  ELSE [nombre |-> f.nombre, formato |-> "Area, Perimetro",
        cifras |-> <<toFixed2(calcularArea(f)), toFixed2(calcularPerimetro(f))>>]

\* the getter id of FiguraGeometrica; a property no class defines reads undefined
get_id(f) == IF "id" \in Metodos(f) THEN f.id ELSE Indefinido

\* ------------------------------------------------------------------------
\* Similarity strategies
\* ------------------------------------------------------------------------
Estrategias == {"SimilitudTipo", "SimilitudArea"}

SimilitudTipo_sonSimilares(fig1, fig2) == Devuelve(fig1.nombre = fig2.nombre)

\* a1 / a2 kept as the exact quotient; NaN when an operand is NaN or for 0/0
Cociente(a1, a2) ==
  [nan |-> a1.nan \/ a2.nan \/ (a1.v = 0 /\ a2.v = 0), num |-> a1.v, den |-> a2.v]
\* ratio > n/d and ratio < n/d for a literal n/d; false on NaN
Mayor(ratio, n, d) == (~ratio.nan) /\ ratio.num * d > n * ratio.den
Menor(ratio, n, d) == (~ratio.nan) /\ ratio.num * d < n * ratio.den

\* mutant: the lower bound included (ratio >= 0.8)
SimilitudArea_inclusiva(fig1, fig2) ==
  IF "calcularArea" \notin Metodos(fig1) \/ "calcularArea" \notin Metodos(fig2)
  THEN Lanza("TypeError")
  ELSE LET ratio == Cociente(calcularArea(fig1), calcularArea(fig2))
       IN Devuelve(~Menor(ratio, 8, 10) /\ ~ratio.nan /\ Menor(ratio, 12, 10))

\* mutant: the upper bound taken as the reciprocal of the lower (ratio <= 1.25)
SimilitudArea_reciproca(fig1, fig2) ==
  IF "calcularArea" \notin Metodos(fig1) \/ "calcularArea" \notin Metodos(fig2)
  THEN Lanza("TypeError")
  ELSE LET ratio == Cociente(calcularArea(fig1), calcularArea(fig2))
       IN Devuelve(Mayor(ratio, 8, 10) /\ ~Mayor(ratio, 125, 100))

SimilitudArea_sonSimilares(fig1, fig2) ==
  IF "calcularArea" \notin Metodos(fig1) \/ "calcularArea" \notin Metodos(fig2)
  THEN Lanza("TypeError")
  ELSE LET a1 == calcularArea(fig1)
           a2 == calcularArea(fig2)
           ratio == Cociente(a1, a2)
       IN Devuelve(Mayor(ratio, 8, 10) /\ Menor(ratio, 12, 10))

sonSimilares(estrategia, fig1, fig2) ==
  CASE estrategia = "SimilitudTipo" -> SimilitudTipo_sonSimilares(fig1, fig2)
    [] estrategia = "SimilitudArea" -> SimilitudArea_sonSimilares(fig1, fig2)
    [] estrategia = "SimilitudStrategy" -> Lanza("NotImplemented")

\* figura.compararSimilitud(otra, estrategia); "omitida" is the call with
\* one argument, which takes the default new SimilitudTipo()
\* mutant: the default strategy is SimilitudArea
compararSimilitud_porArea(this, figura, estrategia) ==
  IF "compararSimilitud" \notin Metodos(this) THEN Lanza("TypeError")
  ELSE sonSimilares(IF estrategia = "omitida" THEN "SimilitudArea" ELSE estrategia,
                    this, figura)

compararSimilitud(this, figura, estrategia) ==
  IF "compararSimilitud" \notin Metodos(this) THEN Lanza("TypeError")
  ELSE sonSimilares(IF estrategia = "omitida" THEN "SimilitudTipo" ELSE estrategia,
                    this, figura)

\* ------------------------------------------------------------------------
\* State
\* ------------------------------------------------------------------------
VARIABLES
  llamada,      \* the last construction: how, of what, with what, and its outcome
  medida,       \* what the members of the constructed value answered
  fig1, fig2,   \* two values a caller holds, to be compared
  respuesta,    \* what the last query about fig1 and fig2 answered
  figuras,      \* ColeccionFiguras.figuras
  salida,       \* the lines written by console.log
  pc,           \* next statement of the demonstration script
  demo          \* the constants the script has bound so far

vars == <<llamada, medida, fig1, fig2, respuesta, figuras, salida, pc, demo>>

Ninguna == [clase |-> "ninguna"]
SinLlamada == [via |-> "ninguna", tipo |-> "", parametros |-> SinParametros,
               resultado |-> Lanza("ninguna")]
SinMedida == [hecha |-> FALSE]
SinRespuesta == [op |-> "ninguna"]

Init ==
  /\ llamada = SinLlamada
  /\ medida = SinMedida
  /\ fig1 = Ninguna
  /\ fig2 = Ninguna
  /\ respuesta = SinRespuesta
  /\ figuras = <<>>
  /\ salida = <<>>
  /\ pc = 1
  /\ demo = [n \in {} |-> Ninguna]

\* ------------------------------------------------------------------------
\* Inputs
\* ------------------------------------------------------------------------
Validos == {Lit(2), Frac(5, 2), Lit(3)}
Valores == Validos \cup {NaN, Lit(0), Lit(-2), Indefinido, Cadena(5)}
Tipos == TiposReconocidos \cup {"triangulo", "cuadrado"}
Clases == Clases2D \cup Clases3D

BolsaRadio(r) == Bolsa(r, Indefinido, Indefinido, Indefinido)
BolsaLado(l) == Bolsa(Indefinido, Indefinido, Indefinido, l)
BolsaRect(w, h) == Bolsa(Indefinido, w, h, Indefinido)
Bolsas ==
  {BolsaRadio(r) : r \in Valores} \cup {BolsaLado(l) : l \in Valores}
    \cup {BolsaRect(w, h) : w \in Valores, h \in Valores} \cup {SinParametros}

\* ------------------------------------------------------------------------
\* Construction and measurement of one value
\* ------------------------------------------------------------------------
\* new Clase(...) called directly with the fields of parametros
nuevo(clase, parametros, rnd) ==
  CASE clase = "Circulo" -> Circulo(parametros.radio, rnd)
    [] clase = "Rectangulo" -> Rectangulo(parametros.ancho, parametros.alto, rnd)
    [] clase = "Pentagono" -> Pentagono(parametros.lado, rnd)
    [] clase = "Hexagono" -> Hexagono(parametros.lado, rnd)
    [] clase = "Cubo" -> Cubo(parametros.lado)
    [] clase = "Esfera" -> Esfera(parametros.radio)

\* f.metodo() for a method without arguments
Llamar(f, metodo) ==
  IF metodo \notin Metodos(f) THEN Lanza("TypeError")
  ELSE CASE metodo = "calcularArea" -> Devuelve(calcularArea(f))
         [] metodo = "calcularPerimetro" -> Devuelve(calcularPerimetro(f))
         [] metodo = "calcularVolumen" -> Devuelve(calcularVolumen(f))
         [] metodo = "dibujarASCII" -> Devuelve(dibujarASCII(f))
         [] metodo = "describir" -> Devuelve(describir(f))

Crear(tipo, parametros, rnd) ==
  /\ llamada' = [via |-> "crear", tipo |-> tipo, parametros |-> parametros,
                 resultado |-> crear(tipo, parametros, rnd)]
  /\ medida' = SinMedida
  /\ UNCHANGED <<fig1, fig2, respuesta, figuras, salida, pc, demo>>

Construir(clase, parametros, rnd) ==
  /\ parametros.objeto
  /\ llamada' = [via |-> "new", tipo |-> clase, parametros |-> parametros,
                 resultado |-> nuevo(clase, parametros, rnd)]
  /\ medida' = SinMedida
  /\ UNCHANGED <<fig1, fig2, respuesta, figuras, salida, pc, demo>>

Medir ==
  /\ ~llamada.resultado.lanza
  /\ ~medida.hecha
  /\ LET f == llamada.resultado.valor
     IN medida' = [hecha |-> TRUE,
                   area |-> Llamar(f, "calcularArea"),
                   perimetro |-> Llamar(f, "calcularPerimetro"),
                   volumen |-> IF f.clase = "Figura3DAdapter"
                               THEN Llamar(f.figura3D, "calcularVolumen")
                               ELSE Llamar(f, "calcularVolumen"),
                   dibujo |-> Llamar(f, "dibujarASCII"),
                   descripcion |-> Llamar(f, "describir"),
                   id |-> get_id(f)]
  /\ UNCHANGED <<llamada, fig1, fig2, respuesta, figuras, salida, pc, demo>>

Next ==
  \/ \E tipo \in Tipos, parametros \in Bolsas, rnd \in Ids : Crear(tipo, parametros, rnd)
  \/ \E clase \in Clases, parametros \in Bolsas, rnd \in Ids : Construir(clase, parametros, rnd)
  \/ Medir

Spec == Init /\ [][Next]_vars

\* ------------------------------------------------------------------------
\* Properties of construction (specification Spec)
\* ------------------------------------------------------------------------
\* the kind a call is about, as a factory tag
TipoDe(ll) ==
  IF ll.via = "crear" THEN ll.tipo
  ELSE CASE ll.tipo = "Circulo" -> "circulo"
         [] ll.tipo = "Rectangulo" -> "rectangulo"
         [] ll.tipo = "Pentagono" -> "pentagono"
         [] ll.tipo = "Hexagono" -> "hexagono"
         [] ll.tipo = "Cubo" -> "cubo"
         [] ll.tipo = "Esfera" -> "esfera"

\* the defining parameters of a kind, read from a parameter bag
Definitorios(tipo, p) ==
  CASE tipo \in {"circulo", "esfera"} -> {p.radio}
    [] tipo = "rectangulo" -> {p.ancho, p.alto}
    [] tipo \in {"pentagono", "hexagono", "cubo"} -> {p.lado}

EsRealPositivo(x) == x.tipo = "number" /\ ~x.nan /\ x.v > 0

LlamadaReconocida ==
  /\ llamada.via \in {"crear", "new"}
  /\ TipoDe(llamada) \in TiposReconocidos
  /\ llamada.parametros.objeto

ParametrosValidos ==
  \A x \in Definitorios(TipoDe(llamada), llamada.parametros) : EsRealPositivo(x)

\* C1: for every kind, constructing directly or through the factory with a
\* defining parameter that is not a real number (non-numeric, undefined or
\* NaN) or that is <= 0 fails with InvalidParameter and produces no instance.
C1_ParametroInvalidoFalla ==
  (LlamadaReconocida /\ ~ParametrosValidos)
    => (llamada.resultado.lanza /\ llamada.resultado.error = "InvalidParameter")

\* C2: every value the factory returns provides calcularArea,
\* calcularPerimetro, dibujarASCII, describir and a defined id.
C2_ContratoUniforme ==
  (llamada.via = "crear" /\ medida.hecha)
    => /\ ~medida.area.lanza
       /\ ~medida.perimetro.lanza
       /\ ~medida.dibujo.lanza
       /\ ~medida.descripcion.lanza
       /\ medida.id.tipo # "undefined"

\* the class the factory instantiates for a tag, and whether it is wrapped
ClaseDeTipo(tipo) ==
  CASE tipo = "circulo" -> "Circulo"
    [] tipo = "rectangulo" -> "Rectangulo"
    [] tipo = "pentagono" -> "Pentagono"
    [] tipo = "hexagono" -> "Hexagono"
    [] tipo = "cubo" -> "Cubo"
    [] tipo = "esfera" -> "Esfera"

EsInstanciaDe(f, tipo) ==
  IF tipo \in {"cubo", "esfera"}
  THEN f.clase = "Figura3DAdapter" /\ f.figura3D.clase = ClaseDeTipo(tipo)
  ELSE f.clase = ClaseDeTipo(tipo)

Tolerancia == Scale \div 20
Cerca(a, b) == ~a.nan /\ ~b.nan /\ a.v - b.v <= Tolerancia /\ b.v - a.v <= Tolerancia

FormulaArea(tipo, p) ==
  CASE tipo = "circulo" -> Mul(PI, Mul(p.radio, p.radio))
    [] tipo = "rectangulo" -> Mul(p.ancho, p.alto)
    [] tipo = "pentagono" -> Div(Mul(Lit(5), Mul(p.lado, p.lado)), Mul(Lit(4), TanPI5))
    [] tipo = "hexagono" -> Mul(Div(Mul(Lit(3), Sqrt3), Lit(2)), Mul(p.lado, p.lado))
    [] tipo = "cubo" -> Pot23(Mul(Mul(p.lado, p.lado), p.lado))
    [] tipo = "esfera" ->
         Pot23(Mul(Mul(Div(Lit(4), Lit(3)), PI), Mul(Mul(p.radio, p.radio), p.radio)))

FormulaPerimetro(tipo, p) ==
  CASE tipo = "circulo" -> Mul(Mul(Lit(2), PI), p.radio)
    [] tipo = "rectangulo" -> Mul(Lit(2), Sum(p.ancho, p.alto))
    [] tipo = "pentagono" -> Mul(Lit(5), p.lado)
    [] tipo = "hexagono" -> Mul(Lit(6), p.lado)
    [] tipo \in {"cubo", "esfera"} -> Num(0)

FormulaVolumen(tipo, p) ==
  CASE tipo = "cubo" -> Mul(Mul(p.lado, p.lado), p.lado)
    [] tipo = "esfera" ->
         Mul(Mul(Div(Lit(4), Lit(3)), PI), Mul(Mul(p.radio, p.radio), p.radio))

\* C9: for valid (strictly positive) parameters the metrics of a value made
\* by the factory equal the closed forms: rectangle w*h and 2*(w+h), circle
\* pi*r^2 and 2*pi*r, pentagon 5*s^2/(4*tan(pi/5)) and 5*s, hexagon
\* (3*sqrt(3)/2)*s^2 and 6*s, cube volume s^3, sphere volume (4/3)*pi*r^3;
\* a wrapped solid has area volume^(2/3), which for a cube is s^2 within the
\* arithmetic's tolerance, and perimeter exactly 0.
C9_FormulasCerradas ==
  (llamada.via = "crear" /\ medida.hecha /\ ParametrosValidos) =>
    LET t == llamada.tipo
        p == llamada.parametros
    IN /\ medida.area = Devuelve(FormulaArea(t, p))
       /\ medida.perimetro = Devuelve(FormulaPerimetro(t, p))
       /\ t \in {"cubo", "esfera"} => medida.volumen = Devuelve(FormulaVolumen(t, p))
       /\ t = "cubo" => Cerca(medida.area.valor, Mul(p.lado, p.lado))

W9_CuboDeLado3 ==
  /\ llamada.via = "crear"
  /\ llamada.tipo = "cubo"
  /\ llamada.parametros = BolsaLado(Lit(3))
  /\ medida.hecha
  /\ medida.volumen = Devuelve(Lit(27))
  /\ medida.area = Devuelve(Lit(9))
  /\ medida.perimetro = Devuelve(Num(0))

\* ------------------------------------------------------------------------
\* Two values and the queries about them (specification SpecSimilitud)
\* ------------------------------------------------------------------------
Aceptados == Validos \cup {NaN}
BolsasDe(tipo) ==
  CASE tipo \in {"circulo", "esfera"} -> {BolsaRadio(r) : r \in Aceptados}
    [] tipo = "rectangulo" -> {BolsaRect(w, h) : w \in Aceptados, h \in Aceptados}
    [] tipo \in {"pentagono", "hexagono", "cubo"} -> {BolsaLado(l) : l \in Aceptados}

\* const figN = FiguraGeometrica.crear(tipo, parametros); a throw binds nothing
Fabricar(n, tipo, parametros, rnd) ==
  LET r == crear(tipo, parametros, rnd)
  IN /\ ~r.lanza
     /\ IF n = 1 THEN fig1' = r.valor /\ fig2' = fig2
                 ELSE fig2' = r.valor /\ fig1' = fig1
     /\ respuesta' = SinRespuesta
     /\ UNCHANGED <<llamada, medida, figuras, salida, pc, demo>>

DosFiguras == fig1 # Ninguna /\ fig2 # Ninguna

\* new Estrategia().sonSimilares(fig1, fig2)
SonSimilares(estrategia) ==
  /\ DosFiguras
  /\ respuesta' = [op |-> "sonSimilares", estrategia |-> estrategia,
                   resultado |-> sonSimilares(estrategia, fig1, fig2)]
  /\ UNCHANGED <<llamada, medida, fig1, fig2, figuras, salida, pc, demo>>

\* fig1.compararSimilitud(fig2) and fig1.compararSimilitud(fig2, new Estrategia())
CompararSimilitud(estrategia) ==
  /\ DosFiguras
  /\ respuesta' = [op |-> "compararSimilitud", estrategia |-> estrategia,
                   resultado |-> compararSimilitud(fig1, fig2, estrategia)]
  /\ UNCHANGED <<llamada, medida, fig1, fig2, figuras, salida, pc, demo>>

\* fig1.dibujarASCII() and fig2.dibujarASCII()
Dibujar ==
  /\ DosFiguras
  /\ respuesta' = [op |-> "dibujarASCII",
                   dibujos |-> <<Llamar(fig1, "dibujarASCII"), Llamar(fig2, "dibujarASCII")>>]
  /\ UNCHANGED <<llamada, medida, fig1, fig2, figuras, salida, pc, demo>>

NextSimilitud ==
  \/ \E n \in 1..2, tipo \in TiposReconocidos, rnd \in Ids :
       \E parametros \in BolsasDe(tipo) : Fabricar(n, tipo, parametros, rnd)
  \/ \E estrategia \in Estrategias \cup {"SimilitudStrategy"} : SonSimilares(estrategia)
  \/ \E estrategia \in Estrategias \cup {"omitida"} : CompararSimilitud(estrategia)
  \/ Dibujar

SpecSimilitud == Init /\ [][NextSimilitud]_vars

\* the kind of a value the factory made
Genero(f) == IF f.clase = "Figura3DAdapter" THEN f.figura3D.clase ELSE f.clase

RespuestaArea ==
  /\ respuesta.op = "sonSimilares"
  /\ respuesta.estrategia = "SimilitudArea"

\* 0.8 < a1/a2 < 1.2 over the computed areas, as 4*a2 < 5*a1 < 6*a2
RazonEnIntervalo(a1, a2) ==
  /\ ~a1.nan /\ ~a2.nan
  /\ a2.v > 0
  /\ 4 * a2.v < 5 * a1.v
  /\ 5 * a1.v < 6 * a2.v

\* C3: area similarity returns true if and only if calcularArea(A) /
\* calcularArea(B) lies strictly between 0.8 and 1.2, for every pair of
\* values of the factory, wrapped solids included; at exactly 0.8 or 1.2 it
\* returns false.
C3_SimilitudArea ==
  RespuestaArea =>
    /\ ~respuesta.resultado.lanza
    /\ respuesta.resultado.valor <=> RazonEnIntervalo(calcularArea(fig1), calcularArea(fig2))

W3_RazonExacta ==
  /\ RespuestaArea
  /\ fig1.clase = "Rectangulo" /\ fig2.clase = "Figura3DAdapter"
  /\ 5 * calcularArea(fig1).v = 6 * calcularArea(fig2).v
  /\ respuesta.resultado = Devuelve(FALSE)

\* C4 as claimed: if sonSimilares(A, B) by area is true then so is
\* sonSimilares(B, A).
C4_Simetria ==
  (RespuestaArea /\ respuesta.resultado = Devuelve(TRUE))
    => SimilitudArea_sonSimilares(fig2, fig1) = Devuelve(TRUE)

\* C4 amended: if sonSimilares(A, B) by area is true and the area of A is
\* not smaller than the area of B then sonSimilares(B, A) is true.
C4_SimetriaDesdeLaMayor ==
  (RespuestaArea /\ respuesta.resultado = Devuelve(TRUE)
     /\ calcularArea(fig1).v >= calcularArea(fig2).v)
    => SimilitudArea_sonSimilares(fig2, fig1) = Devuelve(TRUE)

W4_MayorSimilar ==
  /\ RespuestaArea
  /\ respuesta.resultado = Devuelve(TRUE)
  /\ calcularArea(fig1).v > calcularArea(fig2).v
  /\ Genero(fig1) # Genero(fig2)

\* C5: compararSimilitud on a 2D figure without a strategy compares by type,
\* and comparison by type is true if and only if the two values are of the
\* same kind, whatever their dimensions (adapters and solids included).
C5_SimilitudTipoPorDefecto ==
  /\ (respuesta.op = "compararSimilitud" /\ respuesta.estrategia = "omitida"
        /\ fig1.clase \in Clases2D)
       => /\ ~respuesta.resultado.lanza
          /\ respuesta.resultado.valor <=> (Genero(fig1) = Genero(fig2))
  /\ (respuesta.op = "sonSimilares" /\ respuesta.estrategia = "SimilitudTipo")
       => /\ ~respuesta.resultado.lanza
          /\ respuesta.resultado.valor <=> (Genero(fig1) = Genero(fig2))

W5_MismoTipoOtraMedida ==
  /\ respuesta.op = "compararSimilitud" /\ respuesta.estrategia = "omitida"
  /\ fig1.clase = "Circulo" /\ fig2.clase = "Circulo"
  /\ fig1.radio = Lit(2) /\ fig2.radio = Lit(3)
  /\ respuesta.resultado = Devuelve(TRUE)

\* C8: dibujarASCII depends on the kind only, the adapter returns the
\* pattern of the solid it wraps, and the pattern of a solid differs from
\* the pattern of every 2D kind.
C8_PatronPorTipo ==
  respuesta.op = "dibujarASCII" =>
    LET d1 == respuesta.dibujos[1]
        d2 == respuesta.dibujos[2]
    IN /\ ~d1.lanza /\ ~d2.lanza
       /\ Genero(fig1) = Genero(fig2) => d1.valor = d2.valor
       /\ fig1.clase = "Figura3DAdapter" => d1.valor = dibujarASCII(fig1.figura3D)
       /\ (fig1.clase = "Figura3DAdapter" /\ fig2.clase \in Clases2D) => d1.valor # d2.valor

\* ------------------------------------------------------------------------
\* Collection (specification SpecColeccion)
\* ------------------------------------------------------------------------
\* what console.log writes: a text, a text and a value, or a drawing
Texto(t) == [texto |-> t]
TextoYValor(t, x) == [texto |-> t, valor |-> x]
Dibujo(d) == [dibujo |-> d]

\* mutant: unshift in place of push
agregar_alFrente(lista, figura) == <<figura>> \o lista

\* agregar(figura): this.figuras.push(figura)
agregar(lista, figura) == Append(lista, figura)

\* this.figuras.forEach(f => console.log(f.describir()))
RECURSIVE forEachDescribir(_)
forEachDescribir(lista) ==
  IF lista = <<>> THEN <<>>
  ELSE <<describir(Head(lista))>> \o forEachDescribir(Tail(lista))

\* mutant: the members are written last to first
listar_alReves(lista) ==
  <<Texto("=== FIGURAS ===")>>
    \o [i \in 1..Len(lista) |-> describir(lista[Len(lista) + 1 - i])]

\* listar(): the lines it writes
listar(lista) == <<Texto("=== FIGURAS ===")>> \o forEachDescribir(lista)

\* the figures the exploration of the collection draws from
Muestras ==
  {<<"circulo", BolsaRadio(Lit(5))>>, <<"pentagono", BolsaLado(Lit(4))>>,
   <<"hexagono", BolsaLado(Lit(6))>>, <<"cubo", BolsaLado(Lit(3))>>,
   <<"esfera", BolsaRadio(Lit(4))>>, <<"rectangulo", BolsaRect(Lit(2), Lit(3))>>}

\* coleccion.agregar(FiguraGeometrica.crear(tipo, parametros))
AgregarNueva(tipo, parametros, rnd) ==
  LET r == crear(tipo, parametros, rnd)
  IN /\ ~r.lanza
     /\ Len(figuras) < MaxFiguras
     /\ figuras' = agregar(figuras, r.valor)
     /\ UNCHANGED <<llamada, medida, fig1, fig2, respuesta, salida, pc, demo>>

\* coleccion.agregar(f) for a figure f that is already a member
AgregarOtraVez(i) ==
  /\ Len(figuras) < MaxFiguras
  /\ figuras' = agregar(figuras, figuras[i])
  /\ UNCHANGED <<llamada, medida, fig1, fig2, respuesta, salida, pc, demo>>

Listar ==
  /\ Len(salida) + 1 + Len(figuras) <= MaxSalida
  /\ salida' = salida \o listar(figuras)
  /\ UNCHANGED <<llamada, medida, fig1, fig2, respuesta, figuras, pc, demo>>

NextColeccion ==
  \/ \E m \in Muestras, rnd \in Ids : AgregarNueva(m[1], m[2], rnd)
  \/ \E i \in 1..Len(figuras) : AgregarOtraVez(i)
  \/ Listar

SpecColeccion == Init /\ [][NextColeccion]_vars

\* C7: the collection keeps insertion order: agregar only appends one
\* element at the end and writes nothing; listar leaves the collection as
\* it is and writes the header followed by exactly one describir() line per
\* member, in the order the members were added.
C7_OrdenDeInsercion ==
  [][/\ figuras' # figuras =>
          /\ Len(figuras') = Len(figuras) + 1
          /\ SubSeq(figuras', 1, Len(figuras)) = figuras
          /\ salida' = salida
     /\ salida' # salida =>
          /\ figuras' = figuras
          /\ Len(salida') = Len(salida) + 1 + Len(figuras)
          /\ SubSeq(salida', 1, Len(salida)) = salida
          /\ salida'[Len(salida) + 1] = Texto("=== FIGURAS ===")
          /\ \A i \in 1..Len(figuras) :
               salida'[Len(salida) + 1 + i] = describir(figuras[i])]_vars

W7_TresListadas ==
  /\ Len(figuras) = 3
  /\ describir(figuras[1]) # describir(figuras[2])
  /\ describir(figuras[2]) # describir(figuras[3])
  /\ describir(figuras[1]) # describir(figuras[3])
  /\ Len(salida) = 6
  /\ salida = <<Texto("=== FIGURAS ==="), describir(figuras[1]),
                Texto("=== FIGURAS ==="), describir(figuras[1]),
                describir(figuras[2]), describir(figuras[3])>>

\* ------------------------------------------------------------------------
\* The demonstration script (specification SpecDemo)
\* ------------------------------------------------------------------------
Guion ==
  << [op |-> "log", texto |-> "SISTEMA EXTENDIDO DE FIGURAS"],
     [op |-> "coleccion"],
     [op |-> "crear", nombre |-> "circulo", tipo |-> "circulo",
      parametros |-> BolsaRadio(Lit(5))],
     [op |-> "crear", nombre |-> "pentagono", tipo |-> "pentagono",
      parametros |-> BolsaLado(Lit(4))],
     [op |-> "crear", nombre |-> "hexagono", tipo |-> "hexagono",
      parametros |-> BolsaLado(Lit(6))],
     [op |-> "crear", nombre |-> "cubo", tipo |-> "cubo",
      parametros |-> BolsaLado(Lit(3))],
     [op |-> "crear", nombre |-> "esfera", tipo |-> "esfera",
      parametros |-> BolsaRadio(Lit(4))],
     [op |-> "agregar", nombre |-> "circulo"],
     [op |-> "agregar", nombre |-> "pentagono"],
     [op |-> "agregar", nombre |-> "hexagono"],
     [op |-> "agregar", nombre |-> "cubo"],
     [op |-> "agregar", nombre |-> "esfera"],
     [op |-> "listar"],
     [op |-> "log", texto |-> "Similitud entre figuras:"],
     [op |-> "comparar", texto |-> "Círculo ~ Pentágono (tipo):",
      nombre |-> "circulo", otra |-> "pentagono", estrategia |-> "omitida"],
     [op |-> "comparar", texto |-> "Pentágono ~ Hexágono (área):",
      nombre |-> "pentagono", otra |-> "hexagono", estrategia |-> "SimilitudArea"],
     [op |-> "log", texto |-> "DIBUJOS ASCII:"],
     [op |-> "dibujar", nombre |-> "circulo"],
     [op |-> "dibujar", nombre |-> "hexagono"],
     [op |-> "dibujar", nombre |-> "esfera"],
     [op |-> "log", texto |-> "Sistema extendido ejecutado con éxito"] >>

Fin == Len(Guion) + 1
\* pc = 0 stands for the script ended by an uncaught error
EnCurso(op) == pc \in 1..Len(Guion) /\ Guion[pc].op = op
Ligar(nombre, x) == [n \in DOMAIN demo \cup {nombre} |-> IF n = nombre THEN x ELSE demo[n]]
Siguiente(r) == IF r.lanza THEN 0 ELSE pc + 1

DemoLog ==
  /\ EnCurso("log")
  /\ salida' = Append(salida, Texto(Guion[pc].texto))
  /\ pc' = pc + 1
  /\ UNCHANGED <<llamada, medida, fig1, fig2, respuesta, figuras, demo>>

DemoColeccion ==
  /\ EnCurso("coleccion")
  /\ figuras' = <<>>
  /\ pc' = pc + 1
  /\ UNCHANGED <<llamada, medida, fig1, fig2, respuesta, salida, demo>>

DemoCrear(rnd) ==
  /\ EnCurso("crear")
  /\ LET r == crear(Guion[pc].tipo, Guion[pc].parametros, rnd)
     IN /\ demo' = IF r.lanza THEN demo ELSE Ligar(Guion[pc].nombre, r.valor)
        /\ pc' = Siguiente(r)
  /\ UNCHANGED <<llamada, medida, fig1, fig2, respuesta, figuras, salida>>

DemoAgregar ==
  /\ EnCurso("agregar")
  /\ figuras' = agregar(figuras, demo[Guion[pc].nombre])
  /\ pc' = pc + 1
  /\ UNCHANGED <<llamada, medida, fig1, fig2, respuesta, salida, demo>>

DemoListar ==
  /\ EnCurso("listar")
  /\ salida' = salida \o listar(figuras)
  /\ pc' = pc + 1
  /\ UNCHANGED <<llamada, medida, fig1, fig2, respuesta, figuras, demo>>

DemoComparar ==
  /\ EnCurso("comparar")
  /\ LET r == compararSimilitud(demo[Guion[pc].nombre], demo[Guion[pc].otra],
                                Guion[pc].estrategia)
     IN /\ salida' = IF r.lanza THEN salida
                     ELSE Append(salida, TextoYValor(Guion[pc].texto, r.valor))
        /\ pc' = Siguiente(r)
  /\ UNCHANGED <<llamada, medida, fig1, fig2, respuesta, figuras, demo>>

DemoDibujar ==
  /\ EnCurso("dibujar")
  /\ LET r == Llamar(demo[Guion[pc].nombre], "dibujarASCII")
     IN /\ salida' = IF r.lanza THEN salida ELSE Append(salida, Dibujo(r.valor))
        /\ pc' = Siguiente(r)
  /\ UNCHANGED <<llamada, medida, fig1, fig2, respuesta, figuras, demo>>

NextDemo ==
  \/ DemoLog
  \/ DemoColeccion
  \/ \E rnd \in Ids : DemoCrear(rnd)
  \/ DemoAgregar
  \/ DemoListar
  \/ DemoComparar
  \/ DemoDibujar

\* the script is one synchronous run: a statement that can execute does
SpecDemo == Init /\ [][NextDemo]_vars /\ WF_vars(NextDemo)

DeMuestra(tipo, parametros) == crear(tipo, parametros, 1).valor

SalidaEsperada ==
  << Texto("SISTEMA EXTENDIDO DE FIGURAS"),
     Texto("=== FIGURAS ==="),
     describir(DeMuestra("circulo", BolsaRadio(Lit(5)))),
     describir(DeMuestra("pentagono", BolsaLado(Lit(4)))),
     describir(DeMuestra("hexagono", BolsaLado(Lit(6)))),
     describir(DeMuestra("cubo", BolsaLado(Lit(3)))),
     describir(DeMuestra("esfera", BolsaRadio(Lit(4)))),
     Texto("Similitud entre figuras:"),
     TextoYValor("Círculo ~ Pentágono (tipo):", FALSE),
     TextoYValor("Pentágono ~ Hexágono (área):", FALSE),
     Texto("DIBUJOS ASCII:"),
     Dibujo(ArteCirculo),
     Dibujo(ArteHexagono),
     Dibujo(ArteEsfera),
     Texto("Sistema extendido ejecutado con éxito") >>

\* C10: the script runs to its end without an error and has then written,
\* in this order: the banner; the header and the five descriptions (circle,
\* pentagon, hexagon, cube, sphere); the similarity section with circle vs
\* pentagon by type (false) and pentagon vs hexagon by area (false); the
\* drawings of the circle, the hexagon and the sphere; the success line.
C10_Demostracion == <>[](pc = Fin /\ salida = SalidaEsperada)

W10_DemoTerminada ==
  /\ pc = Fin
  /\ Len(salida) = 15
  /\ Len(figuras) = 5
  /\ salida[3] = describir(figuras[1])
  /\ salida[7] = describir(figuras[5])
  /\ salida[15] = Texto("Sistema extendido ejecutado con éxito")

====
